---------------------------- MODULE Spec2Model ----------------------------
(***************************************************************************)
(* Model of scripts/transcoding/script.py: the per-asset pipeline          *)
(* (transcode_video, extract_subtitles, transfer_file) and the loop of     *)
(* main that drives it.                                                    *)
(*                                                                         *)
(* Control is a caller position (pc) and a callee position (fpc).  Every   *)
(* external interaction (subprocess.run, paramiko call, os call) is one    *)
(* step whose outcome the environment chooses: success, a non-zero exit    *)
(* (subprocess.CalledProcessError under check=True) or an error invoking   *)
(* the tool (OSError).  A raised exception is caught exactly where the     *)
(* source has a matching except clause; otherwise it leaves the function   *)
(* (fpc = "raised") and, main having no try statement, ends main           *)
(* (pc = "crashed").                                                       *)
(*                                                                         *)
(* trace is the list of external interactions of the running call, in      *)
(* order; stages is the list of pipeline stages main ran for the current   *)
(* video.                                                                  *)
(***************************************************************************)
EXTENDS Integers, Sequences, FiniteSets, TLC

\* Bound: the number of video files find_video_files may return.
MaxVideos == 2

----------------------------------------------------------------------------
\* Text.  A Python str is a sequence of one-character strings.

\* `sub in s` of Python: sub occurs in s as a contiguous slice.
Contains(sub, s) ==
    \E k \in 0..(Len(s) - Len(sub)) :
        \A j \in 1..Len(sub) : s[k + j] = sub[j]

\* ffprobe's answers for -show_entries stream=bits_per_raw_sample,pix_fmt
\* (csv, p=0) on the first video stream, with the sample depth the pixel
\* format really has (libavutil pixdesc); depth 0: no answer (no video stream,
\* or ffprobe failed with an empty stdout).
ProbeOutputs ==
    { [stdout |-> <<"y","u","v","4","2","0","p",",","8">>, depth |-> 8],
      [stdout |-> <<"y","u","v","4","2","0","p",",","N","/","A">>, depth |-> 8],
      [stdout |-> <<"y","u","v","4","2","0","p","1","0","l","e",",","1","0">>,
       depth |-> 10],
      [stdout |-> <<"y","u","v","4","2","0","p","1","0","l","e",",","N","/","A">>,
       depth |-> 10],
      [stdout |-> <<"y","u","v","4","1","0","p",",","N","/","A">>, depth |-> 8],
      [stdout |-> <<"y","u","v","4","2","0","p","1","2","l","e",",","1","2">>,
       depth |-> 12],
      [stdout |-> <<>>, depth |-> 0] }

\* What the probe step leaves when subprocess.run itself raised (line 154).
NoProbe == [stdout |-> <<>>, depth |-> 0]

\* First subtitle stream's codec_name as ffprobe prints it ("": no subtitle
\* stream, or ffprobe exited non-zero).
SubCodecs ==
    {"ass", "ssa", "dvd_subtitle", "dvdsub", "hdmv_pgs_subtitle", "pgssub",
     "subrip", "mov_text", ""}

\* One codec of each family, and none: what main's videos are drawn from.
VideoSubStreams == {"", "subrip", "ass", "hdmv_pgs_subtitle"}

StyleCodecs == {"ass", "ssa"}
ImageCodecs == {"dvd_subtitle", "dvdsub", "hdmv_pgs_subtitle", "pgssub"}

\* Outcomes of subprocess.run(cmd, check=True).
RunOutcomes == {"ok", "exit", "oserror"}

KeyNames == <<"id_rsa", "id_ed25519">>

----------------------------------------------------------------------------
VARIABLES
    args,            \* parsed arguments: use_gpu, password, method, username
    env,             \* the machine and the server: sshpass, keys, authorized
    n_videos,        \* len(video_files)
    fs,              \* local temp files that exist: <<video, extension>>
    remote,          \* files uploaded to the remote host: <<video, extension>>
    pc,              \* position of main
    i,               \* loop index of main (1-based, 0 before the loop)
    sub_stream,      \* codec of the current video's first subtitle stream
    stages,          \* stages main has run for the current video
    fpc,             \* position inside the running function
    ret,             \* the value the function returned
    exc,             \* the exception that left the function
    trace,           \* external interactions of the running call
    probe,           \* transcode_video: the ffprobe answer (output)
    is_10bit,        \* transcode_video: is_10bit
    local_path,      \* transfer_file / extract_subtitles: the file worked on
    transport,       \* transfer_file: state of the paramiko Transport
    key_idx,         \* transfer_file: index into key_paths
    cmds,            \* transfer_file: how mkdir_cmd / scp_cmd are bound
    subtitle_codec,  \* extract_subtitles: subtitle_codec
    video_files,     \* main: the list find_video_files returned, as paths
    disk,            \* the local files that exist, as paths
    cur,             \* main: the paths computed for the current video
    remote_dir,      \* transfer_file: remote_dir, a string
    rdirs,           \* the directories that exist at the remote side
    actor_dirs,      \* those of them another client of the server created
    stack            \* create_remote_dir: the frames of the recursion

vars == <<args, env, n_videos, fs, remote, pc, i, sub_stream, stages, fpc,
          ret, exc, trace, probe, is_10bit, local_path, transport, key_idx,
          cmds, subtitle_codec, video_files, disk, cur, remote_dir, rdirs,
          actor_dirs, stack>>

\* The path view of main (video_files, disk, cur) is used where the names of
\* the files matter; the steps of the three functions never touch it.
pathVars == <<video_files, disk, cur>>

\* The directory view of create_remote_dir is used where the remote
\* directories matter; elsewhere create_remote_dir is one step (tf_mkdirs).
crdVars == <<remote_dir, rdirs, actor_dirs, stack>>
config == <<args, env, n_videos, pathVars, crdVars>>
mainVars == <<pc, i, sub_stream, stages>>
tvLocals == <<probe, is_10bit>>
tfLocals == <<transport, key_idx, cmds>>

Ev(op, arg, opt, res) == [op |-> op, arg |-> arg, opt |-> opt, res |-> res]

\* The file of the current call with another extension.
Sibling(ext) == <<local_path[1], ext>>

----------------------------------------------------------------------------
\* transcode_video (lines 135-219)

\* line 151: is_10bit = '10' in output or 'p10' in output
Is10Bit(output) ==
    Contains(<<"1","0">>, output) \/ Contains(<<"p","1","0">>, output)

\* lines 157 and 204: `if use_gpu:` selects the hardware attempt, else the
\* software encode.
EncodeEntryAlwaysGpu == "tv_gpu"
EncodeEntry == IF args.use_gpu THEN "tv_gpu" ELSE "tv_cpu"

\* lines 164-167: the hardware command gets -pix_fmt yuv420p iff is_10bit.
GpuPixFmt == IF is_10bit THEN "-pix_fmt yuv420p" ELSE ""

\* What an ffmpeg run leaves at its output path: the file on success, the
\* file or nothing (a partial output) on a non-zero exit, nothing new when
\* ffmpeg could not be started.
AfterRun(out, f) ==
    CASE out = "ok"      -> {fs \cup {f}}
      [] out = "exit"    -> {fs, fs \cup {f}}
      [] out = "oserror" -> {fs}

\* lines 139-155: the bit-depth probe; any exception is swallowed.
tv_probe ==
    /\ fpc = "tv_probe"
    /\ \E p \in ProbeOutputs \cup {[stdout |-> <<>>, depth |-> -1]} :
          /\ probe' = IF p.depth = -1 THEN NoProbe ELSE p
          /\ is_10bit' = IF p.depth = -1 THEN FALSE ELSE Is10Bit(p.stdout)
          /\ trace' = Append(trace, Ev("ffprobe", "v:0", "",
                                       IF p.depth = -1 THEN "oserror" ELSE "ok"))
    /\ fpc' = EncodeEntry
    /\ UNCHANGED <<config, fs, remote, mainVars, ret, exc, local_path,
                   tfLocals, subtitle_codec>>

\* lines 157-187: the h264_nvenc attempt; only CalledProcessError is caught.
tv_gpu ==
    /\ fpc = "tv_gpu"
    /\ \E out \in RunOutcomes :
          /\ trace' = Append(trace, Ev("ffmpeg", "h264_nvenc", GpuPixFmt, out))
          /\ \E nfs \in AfterRun(out, local_path) : fs' = nfs
          /\ fpc' = CASE out = "ok"      -> "returned"
                      [] out = "exit"    -> "tv_cpu_fallback"
                      [] out = "oserror" -> "raised"
          /\ exc' = IF out = "oserror" THEN "OSError" ELSE exc
    /\ ret' = "None"
    /\ UNCHANGED <<config, remote, mainVars, tvLocals, local_path, tfLocals,
                   subtitle_codec>>

\* lines 189-203: the libx264 fallback inside the except clause.
tv_cpu_fallback ==
    /\ fpc = "tv_cpu_fallback"
    /\ \E out \in RunOutcomes :
          /\ trace' = Append(trace, Ev("ffmpeg", "libx264", "", out))
          /\ \E nfs \in AfterRun(out, local_path) : fs' = nfs
          /\ fpc' = IF out = "ok" THEN "returned" ELSE "raised"
          /\ exc' = CASE out = "ok"      -> exc
                      [] out = "exit"    -> "CalledProcessError"
                      [] out = "oserror" -> "OSError"
    /\ UNCHANGED <<config, remote, mainVars, ret, tvLocals, local_path,
                   tfLocals, subtitle_codec>>

\* lines 204-219: software-only mode.
tv_cpu ==
    /\ fpc = "tv_cpu"
    /\ \E out \in RunOutcomes :
          /\ trace' = Append(trace, Ev("ffmpeg", "libx264", "", out))
          /\ \E nfs \in AfterRun(out, local_path) : fs' = nfs
          /\ fpc' = IF out = "ok" THEN "returned" ELSE "raised"
          /\ exc' = CASE out = "ok"      -> exc
                      [] out = "exit"    -> "CalledProcessError"
                      [] out = "oserror" -> "OSError"
    /\ ret' = "None"
    /\ UNCHANGED <<config, remote, mainVars, tvLocals, local_path, tfLocals,
                   subtitle_codec>>

transcode_video == tv_probe \/ tv_gpu \/ tv_cpu_fallback \/ tv_cpu

----------------------------------------------------------------------------
\* transfer_file (lines 238-344)

\* line 243: the branch on transfer_method.
TransferEntry == IF args.method = "sftp" THEN "tf_transport" ELSE "tf_scp_check"

\* line 249: `if password:` selects password authentication, else the keys.
AuthEntryKeysAnyway == "tf_key"
AuthEntry == IF args.password THEN "tf_password" ELSE "tf_key"

\* line 267: every candidate is read with paramiko.RSAKey, which accepts a
\* file only if it holds an RSA private key (SSHException otherwise).
LoadsAsRSAKey(type) == type = "rsa"

\* lines 299-306: the fallback's commands go through sshpass iff a password
\* was given; whether sshpass exists is not checked.
FallbackCmds == IF args.password THEN "sshpass" ELSE "plain"

\* Outcomes of running a command of the given form under check=True: a
\* command wrapped in sshpass cannot be started where sshpass is missing.
CmdOutcomes(form) ==
    IF form = "sshpass" /\ ~env.sshpass THEN {"oserror"} ELSE RunOutcomes

\* A copy can only succeed for a local file that exists.
CopyOutcomes(form) ==
    IF local_path \in fs THEN CmdOutcomes(form) ELSE CmdOutcomes(form) \ {"ok"}

\* lines 240-243: os.getlogin() when no username was given.
tf_start ==
    /\ fpc = "tf_start"
    /\ \E out \in (IF args.username THEN {"ok"} ELSE {"ok", "oserror"}) :
          /\ trace' = IF args.username THEN trace
                      ELSE Append(trace, Ev("os", "getlogin", "", out))
          /\ fpc' = IF out = "ok" THEN TransferEntry ELSE "raised"
          /\ exc' = IF out = "ok" THEN exc ELSE "OSError"
    /\ UNCHANGED <<config, fs, remote, mainVars, ret, tvLocals, local_path,
                   tfLocals, subtitle_codec>>

\* line 245: paramiko.Transport((remote_host, 22)) connects the socket in its
\* constructor, before the try statement of line 247.
tf_transport ==
    /\ fpc = "tf_transport"
    /\ \E out \in {"ok", "fail"} :
          /\ trace' = Append(trace, Ev("paramiko", "Transport", "22", out))
          /\ transport' = IF out = "ok" THEN "open" ELSE transport
          /\ fpc' = IF out = "ok" THEN AuthEntry ELSE "raised"
          /\ exc' = IF out = "ok" THEN exc ELSE "SSHException"
          /\ key_idx' = IF out = "ok" /\ AuthEntry = "tf_key" THEN 1 ELSE key_idx
    /\ UNCHANGED <<config, fs, remote, mainVars, ret, tvLocals, local_path,
                   cmds, subtitle_codec>>

\* lines 250-255: password authentication; a failure is re-raised into the
\* except clause of line 290.
tf_password ==
    /\ fpc = "tf_password"
    /\ \E out \in {"ok", "fail"} :
          /\ trace' = Append(trace, Ev("paramiko", "connect", "password", out))
          /\ transport' = IF out = "ok" THEN "authed" ELSE "active"
          /\ fpc' = IF out = "ok" THEN "tf_sftp" ELSE "tf_fallback"
    /\ UNCHANGED <<config, fs, remote, mainVars, ret, exc, tvLocals,
                   local_path, key_idx, cmds, subtitle_codec>>

\* lines 264-274: one iteration of the loop over key_paths.  The key is
\* loaded, then offered to the server, which accepts it iff it is authorized;
\* every exception of either step is swallowed and the loop goes on.
\* transport.connect starts the transport's thread: on a transport an earlier
\* connect has started it raises (a thread starts once) before any key is
\* offered.
tf_key ==
    /\ fpc = "tf_key"
    /\ LET k    == key_idx
           type == env.keys[k]
           res  == CASE type = "absent"                   -> "absent"
                     [] ~LoadsAsRSAKey(type)              -> "load_failed"
                     [] transport = "active"              -> "connect_failed"
                     [] k \in env.authorized              -> "ok"
                     [] OTHER                             -> "rejected"
       IN  /\ trace' = Append(trace, Ev("key", KeyNames[k], type, res))
           /\ transport' = CASE res = "ok"       -> "authed"
                             [] res = "rejected" -> "active"
                             [] OTHER            -> transport
           /\ IF res = "ok" \/ k = Len(KeyNames)
                 THEN /\ fpc' = "tf_check_active"
                      /\ key_idx' = k
                 ELSE /\ fpc' = "tf_key"
                      /\ key_idx' = k + 1
    /\ UNCHANGED <<config, fs, remote, mainVars, ret, exc, tvLocals,
                   local_path, cmds, subtitle_codec>>

\* lines 277-278: is_active() is true of a transport that was started, whether
\* or not a key was accepted.
tf_check_active ==
    /\ fpc = "tf_check_active"
    /\ fpc' = IF transport \in {"active", "authed"} THEN "tf_sftp"
              ELSE "tf_fallback"
    /\ UNCHANGED <<config, fs, remote, mainVars, ret, exc, trace, tvLocals,
                   local_path, tfLocals, subtitle_codec>>

\* line 280: SFTPClient.from_transport needs an authenticated transport.
tf_sftp ==
    /\ fpc = "tf_sftp"
    /\ \E out \in (IF transport = "authed" THEN {"ok", "fail"} ELSE {"fail"}) :
          /\ trace' = Append(trace, Ev("paramiko", "from_transport", "", out))
          /\ fpc' = IF out = "ok" THEN "tf_mkdirs" ELSE "tf_fallback"
    /\ UNCHANGED <<config, fs, remote, mainVars, ret, exc, tvLocals,
                   local_path, tfLocals, subtitle_codec>>

\* lines 283-284: create_remote_dir; an IOError of mkdir is swallowed inside
\* it, any other error (a lost connection) reaches line 290.
tf_mkdirs ==
    /\ fpc = "tf_mkdirs"
    /\ \E out \in {"ok", "fail"} :
          /\ trace' = Append(trace, Ev("paramiko", "create_remote_dir", "", out))
          /\ fpc' = IF out = "ok" THEN "tf_put" ELSE "tf_fallback"
    /\ UNCHANGED <<config, fs, remote, mainVars, ret, exc, tvLocals,
                   local_path, tfLocals, subtitle_codec>>

\* lines 286-288 and 344: the upload; on success both ends are closed and
\* the function runs off the if statement to `return True`.
tf_put ==
    /\ fpc = "tf_put"
    /\ \E out \in (IF local_path \in fs THEN {"ok", "fail"} ELSE {"fail"}) :
          /\ trace' = Append(trace, Ev("paramiko", "put", "", out))
          /\ remote' = IF out = "ok" THEN remote \cup {local_path} ELSE remote
          /\ transport' = IF out = "ok" THEN "closed" ELSE transport
          /\ fpc' = IF out = "ok" THEN "returned" ELSE "tf_fallback"
          /\ ret' = IF out = "ok" THEN "True" ELSE ret
    /\ UNCHANGED <<config, fs, mainVars, exc, tvLocals, local_path, key_idx,
                   cmds, subtitle_codec>>

\* A remote path is a string, the list of its characters; the server resolves
\* it to a directory: the root or the login directory, and the names leading
\* down from it.

\* The names of a path, in order: the maximal runs without "/".
RECURSIVE Names(_)
Names(p) ==
    IF p = <<>> THEN <<>>
    ELSE IF Head(p) = "/" THEN Names(Tail(p))
    ELSE LET stops == {k \in 1..Len(p) : p[k] = "/"}
             n == IF stops = {} THEN Len(p)
                  ELSE (CHOOSE k \in stops : \A j \in stops : k <= j) - 1
         IN  <<SubSeq(p, 1, n)>> \o Names(SubSeq(p, n + 1, Len(p)))

\* The directory the server resolves a path to.
Resolve(p) == [abs |-> (p # <<>> /\ p[1] = "/"), names |-> Names(p)]

Parent(d) == [abs |-> d.abs, names |-> SubSeq(d.names, 1, Len(d.names) - 1)]

\* The directory and those above it, up to but not including the root or
\* the login directory.
Chain(d) ==
    {[abs |-> d.abs, names |-> SubSeq(d.names, 1, k)] : k \in 1..Len(d.names)}

\* ssh ... "mkdir -p '<remote_dir>'" (lines 301, 305, 330, 334; run at lines
\* 308 and 337): the remote directories it can leave.  On success the whole
\* chain of remote_dir exists; on a non-zero exit it may have created the
\* chain down to some level short of the last.
MkdirP(out) ==
    LET chain == Chain(Resolve(remote_dir))
    IN  CASE out = "ok"      -> {rdirs \cup chain}
          [] out = "exit"    ->
                {rdirs} \cup {rdirs \cup {d \in chain : Len(d.names) <= k} :
                                 k \in 1..(Len(Names(remote_dir)) - 1)}
          [] out = "oserror" -> {rdirs}

\* lines 290-306: the except clause closes the transport and builds the
\* ssh / scp commands.
tf_fallback ==
    /\ fpc = "tf_fallback"
    /\ transport' = "closed"
    /\ cmds' = FallbackCmds
    /\ fpc' = "tf_fb_mkdir"
    /\ UNCHANGED <<config, fs, remote, mainVars, ret, exc, trace, tvLocals,
                   local_path, key_idx, subtitle_codec>>

CopyReturnIgnoresExit(out) == IF out = "oserror" THEN ret ELSE "True"

\* lines 309-313 and 338-342: `return True` after the copy command, `return
\* False` from the except clause of CalledProcessError; any other exception
\* leaves the function before a value is returned.
CopyReturn(out) ==
    CASE out = "ok"      -> "True"
      [] out = "exit"    -> "False"
      [] out = "oserror" -> ret

\* line 308: ssh mkdir -p; lines 311-313 catch CalledProcessError only.
tf_fb_mkdir ==
    /\ fpc = "tf_fb_mkdir"
    /\ \E out \in CmdOutcomes(cmds) :
          /\ trace' = Append(trace, Ev("fallback", "mkdir", cmds, out))
          /\ \E dirs \in MkdirP(out) : rdirs' = dirs
          /\ fpc' = CASE out = "ok"      -> "tf_fb_scp"
                      [] out = "exit"    -> "returned"
                      [] out = "oserror" -> "raised"
          /\ ret' = IF out = "exit" THEN "False" ELSE ret
          /\ exc' = IF out = "oserror" THEN "OSError" ELSE exc
    /\ UNCHANGED <<args, env, n_videos, pathVars, remote_dir, actor_dirs,
                   stack, fs, remote, mainVars, tvLocals, local_path,
                   tfLocals, subtitle_codec>>

\* lines 309-313: scp, then `return True`.
tf_fb_scp ==
    /\ fpc = "tf_fb_scp"
    /\ \E out \in CopyOutcomes(cmds) :
          /\ trace' = Append(trace, Ev("fallback", "scp", cmds, out))
          /\ remote' = IF out = "ok" THEN remote \cup {local_path} ELSE remote
          /\ fpc' = IF out = "oserror" THEN "raised" ELSE "returned"
          /\ ret' = CopyReturn(out)
          /\ exc' = IF out = "oserror" THEN "OSError" ELSE exc
    /\ UNCHANGED <<config, fs, mainVars, tvLocals, local_path, tfLocals,
                   subtitle_codec>>

\* lines 320-335: scp mode.  With a password, `which sshpass` is run: if it
\* fails the plain commands are bound; if it succeeds nothing is bound.
\* Without a password the plain commands are bound.
ScpCmds ==
    IF args.password
       THEN (IF env.sshpass THEN "unbound" ELSE "plain")
       ELSE "plain"

\* line 327: `which sshpass` under check=True exits by whether sshpass is
\* installed, or cannot be started itself.
WhichOutcomes == {IF env.sshpass THEN "ok" ELSE "exit", "oserror"}

\* lines 320-335: line 328 catches CalledProcessError only; an error starting
\* `which` leaves transfer_file, the except clause of line 340 not matching.
tf_scp_check ==
    /\ fpc = "tf_scp_check"
    /\ IF args.password
          THEN \E out \in WhichOutcomes :
                  /\ trace' = Append(trace, Ev("scp", "which sshpass", "", out))
                  /\ IF out = "oserror"
                        THEN /\ fpc' = "raised"
                             /\ exc' = "OSError"
                             /\ UNCHANGED cmds
                        ELSE /\ fpc' = "tf_scp_mkdir"
                             /\ cmds' = ScpCmds
                             /\ UNCHANGED exc
          ELSE /\ cmds' = ScpCmds
               /\ fpc' = "tf_scp_mkdir"
               /\ UNCHANGED <<trace, exc>>
    /\ UNCHANGED <<config, fs, remote, mainVars, ret, tvLocals,
                   local_path, transport, key_idx, subtitle_codec>>

\* line 337: reading the unbound mkdir_cmd raises UnboundLocalError, which
\* the except clause of line 340 does not catch.
tf_scp_mkdir ==
    /\ fpc = "tf_scp_mkdir"
    /\ IF cmds = "unbound"
          THEN /\ fpc' = "raised"
               /\ exc' = "UnboundLocalError"
               /\ UNCHANGED <<trace, ret, rdirs>>
          ELSE \E out \in CmdOutcomes(cmds) :
                  /\ trace' = Append(trace, Ev("scp", "mkdir", cmds, out))
                  /\ \E dirs \in MkdirP(out) : rdirs' = dirs
                  /\ fpc' = CASE out = "ok"      -> "tf_scp_copy"
                              [] out = "exit"    -> "returned"
                              [] out = "oserror" -> "raised"
                  /\ ret' = IF out = "exit" THEN "False" ELSE ret
                  /\ exc' = IF out = "oserror" THEN "OSError" ELSE exc
    /\ UNCHANGED <<args, env, n_videos, pathVars, remote_dir, actor_dirs,
                   stack, fs, remote, mainVars, tvLocals, local_path,
                   tfLocals, subtitle_codec>>

\* lines 338-342: scp, then `return True`.
tf_scp_copy ==
    /\ fpc = "tf_scp_copy"
    /\ \E out \in CopyOutcomes(cmds) :
          /\ trace' = Append(trace, Ev("scp", "scp", cmds, out))
          /\ remote' = IF out = "ok" THEN remote \cup {local_path} ELSE remote
          /\ fpc' = IF out = "oserror" THEN "raised" ELSE "returned"
          /\ ret' = CopyReturn(out)
          /\ exc' = IF out = "oserror" THEN "OSError" ELSE exc
    /\ UNCHANGED <<config, fs, mainVars, tvLocals, local_path, tfLocals,
                   subtitle_codec>>

transfer_file ==
    \/ tf_start \/ tf_transport \/ tf_password \/ tf_key \/ tf_check_active
    \/ tf_sftp \/ tf_mkdirs \/ tf_put \/ tf_fallback \/ tf_fb_mkdir
    \/ tf_fb_scp \/ tf_scp_check \/ tf_scp_mkdir \/ tf_scp_copy

----------------------------------------------------------------------------
\* extract_subtitles (lines 46-133).  local_path is srt_path.

\* lines 71, 102, 118: the branch on subtitle_codec.
ExtractBranch(codec) ==
    CASE codec \in StyleCodecs -> "ex_ass_extract"
      [] codec \in ImageCodecs -> "ex_image"
      [] OTHER                 -> "ex_text"

\* ffmpeg -map 0:s:0 cannot succeed on a video without a subtitle stream.
MapOutcomes == IF sub_stream = "" THEN RunOutcomes \ {"ok"} ELSE RunOutcomes

\* lines 50-62: the codec probe, run without check and outside any try:
\* a non-zero exit yields an empty codec name, an invocation error raises.
ex_probe ==
    /\ fpc = "ex_probe"
    /\ \E out \in RunOutcomes :
          /\ trace' = Append(trace, Ev("ffprobe", "s:0", "", out))
          /\ subtitle_codec' = IF out = "ok" THEN sub_stream ELSE ""
          /\ fpc' = IF out = "oserror" THEN "raised" ELSE "ex_makedirs"
          /\ exc' = IF out = "oserror" THEN "OSError" ELSE exc
    /\ UNCHANGED <<config, fs, remote, mainVars, ret, tvLocals, local_path,
                   tfLocals>>

\* lines 65-71: os.makedirs of the output directory, then the branch.
ex_makedirs ==
    /\ fpc = "ex_makedirs"
    /\ \E out \in {"ok", "oserror"} :
          /\ trace' = Append(trace, Ev("os", "makedirs", "", out))
          /\ fpc' = IF out = "ok" THEN ExtractBranch(subtitle_codec)
                    ELSE "raised"
          /\ exc' = IF out = "ok" THEN exc ELSE "OSError"
    /\ UNCHANGED <<config, fs, remote, mainVars, ret, tvLocals, local_path,
                   tfLocals, subtitle_codec>>

\* An extraction step of ffmpeg writing file f, inside a try statement whose
\* only except clause is subprocess.CalledProcessError -> return False.
ExtractStep(name, f, outcomes, next) ==
    \E out \in outcomes :
       /\ trace' = Append(trace, Ev("ffmpeg", name, "", out))
       /\ \E nfs \in AfterRun(out, f) : fs' = nfs
       /\ fpc' = CASE out = "ok"      -> next
                   [] out = "exit"    -> "returned"
                   [] out = "oserror" -> "raised"
       /\ ret' = IF out = "exit" THEN "False" ELSE ret
       /\ exc' = IF out = "oserror" THEN "OSError" ELSE exc

\* lines 73-84: copy the stream to temp_ass_path.
ex_ass_extract ==
    /\ fpc = "ex_ass_extract"
    /\ ExtractStep("copy to .ass", Sibling("ass"), MapOutcomes, "ex_ass_convert")
    /\ UNCHANGED <<config, remote, mainVars, tvLocals, local_path, tfLocals,
                   subtitle_codec>>

\* lines 86-93: convert temp_ass_path to srt_path.
ex_ass_convert ==
    /\ fpc = "ex_ass_convert"
    /\ ExtractStep("convert .ass to .srt", local_path, RunOutcomes,
                   "ex_ass_remove")
    /\ UNCHANGED <<config, remote, mainVars, tvLocals, local_path, tfLocals,
                   subtitle_codec>>

\* lines 95-96: os.remove(temp_ass_path), reached only after both steps
\* succeeded.
ex_ass_remove ==
    /\ fpc = "ex_ass_remove"
    /\ fs' = fs \ {Sibling("ass")}
    /\ fpc' = "ex_return"
    /\ UNCHANGED <<config, remote, mainVars, ret, exc, trace, tvLocals,
                   local_path, tfLocals, subtitle_codec>>

\* lines 102-116: image-based subtitles.
ex_image ==
    /\ fpc = "ex_image"
    /\ ExtractStep("image to .srt", local_path, MapOutcomes, "ex_return")
    /\ UNCHANGED <<config, remote, mainVars, tvLocals, local_path, tfLocals,
                   subtitle_codec>>

\* lines 118-131: text subtitles (and every codec name not listed above).
ex_text ==
    /\ fpc = "ex_text"
    /\ ExtractStep("text to .srt", local_path, MapOutcomes, "ex_return")
    /\ UNCHANGED <<config, remote, mainVars, tvLocals, local_path, tfLocals,
                   subtitle_codec>>

\* line 133: return os.path.exists(srt_path)
ex_return ==
    /\ fpc = "ex_return"
    /\ ret' = IF local_path \in fs THEN "True" ELSE "False"
    /\ fpc' = "returned"
    /\ UNCHANGED <<config, fs, remote, mainVars, exc, trace, tvLocals,
                   local_path, tfLocals, subtitle_codec>>

extract_subtitles ==
    \/ ex_probe \/ ex_makedirs \/ ex_ass_extract \/ ex_ass_convert
    \/ ex_ass_remove \/ ex_image \/ ex_text \/ ex_return

----------------------------------------------------------------------------
\* main (lines 433-479): the loop over video_files.  main has no try
\* statement: an exception leaving a callee ends main.

Ended == fpc \in {"returned", "raised"}

\* Locals of a finished call are dropped.
DropLocals ==
    /\ probe' = NoProbe
    /\ is_10bit' = FALSE
    /\ transport' = "none"
    /\ key_idx' = 0
    /\ cmds' = "unbound"
    /\ subtitle_codec' = ""
    /\ trace' = <<>>

CrashSkipsVideo ==
    /\ pc' = "loop"
    /\ fpc' = "none"
    /\ UNCHANGED <<config, fs, remote, i, sub_stream, stages, ret, exc, trace,
                   tvLocals, local_path, tfLocals, subtitle_codec>>

\* The exception of the callee leaves main.
Crash ==
    /\ pc' = "crashed"
    /\ fpc' = "none"
    /\ UNCHANGED <<config, fs, remote, i, sub_stream, stages, ret, exc, trace,
                   tvLocals, local_path, tfLocals, subtitle_codec>>

\* The stage main enters once transcode_video has returned (lines 460-464).
AfterTranscode == "Transfer"

\* lines 440-458: take the next video and call transcode_video, or finish.
main_loop ==
    /\ pc = "loop"
    /\ IF i < n_videos
          THEN /\ i' = i + 1
               /\ \E c \in VideoSubStreams : sub_stream' = c
               /\ stages' = <<"Transcode">>
               /\ pc' = "transcode"
               /\ fpc' = "tv_probe"
               /\ local_path' = <<i + 1, "mkv">>
               /\ ret' = "None"
          ELSE /\ pc' = "done"
               /\ UNCHANGED <<i, sub_stream, stages, fpc, local_path, ret>>
    /\ UNCHANGED <<config, fs, remote, exc, trace, tvLocals, tfLocals,
                   subtitle_codec>>

\* lines 460-464: transfer the MKV.
main_transfer_mkv ==
    /\ pc = "transcode"
    /\ Ended
    /\ IF fpc = "raised"
          THEN Crash
          ELSE /\ pc' = "xfer_mkv"
               /\ stages' = Append(stages, AfterTranscode)
               /\ fpc' = "tf_start"
               /\ local_path' = <<i, "mkv">>
               /\ ret' = "None"
               /\ DropLocals
               /\ UNCHANGED <<config, fs, remote, i, sub_stream, exc>>

\* lines 466-471: transfer the SRT if the file exists.
main_transfer_srt ==
    /\ pc = "xfer_mkv"
    /\ Ended
    /\ IF fpc = "raised"
          THEN Crash
          ELSE /\ IF <<i, "srt">> \in fs
                     THEN /\ pc' = "xfer_srt"
                          /\ fpc' = "tf_start"
                          /\ local_path' = <<i, "srt">>
                     ELSE /\ pc' = "cleanup"
                          /\ fpc' = "none"
                          /\ UNCHANGED local_path
               /\ ret' = "None"
               /\ DropLocals
               /\ UNCHANGED <<config, fs, remote, i, sub_stream, stages, exc>>

\* transfer_file of the SRT has ended.
main_after_srt ==
    /\ pc = "xfer_srt"
    /\ Ended
    /\ IF fpc = "raised"
          THEN Crash
          ELSE /\ pc' = "cleanup"
               /\ fpc' = "none"
               /\ ret' = "None"
               /\ DropLocals
               /\ UNCHANGED <<config, fs, remote, i, sub_stream, stages, exc,
                              local_path>>

\* lines 473-477: remove the temp MKV and the temp SRT where they exist.
main_cleanup ==
    /\ pc = "cleanup"
    /\ fs' = fs \ {<<i, "mkv">>, <<i, "srt">>}
    /\ stages' = Append(stages, "Cleanup")
    /\ pc' = "loop"
    /\ UNCHANGED <<config, remote, i, sub_stream, fpc, ret, exc, trace,
                   tvLocals, local_path, tfLocals, subtitle_codec>>

main ==
    \/ main_loop \/ main_transfer_mkv \/ main_transfer_srt \/ main_after_srt
    \/ main_cleanup

----------------------------------------------------------------------------
\* Argument and environment spaces.

Args ==
    [use_gpu : BOOLEAN, password : BOOLEAN, method : {"sftp", "scp"},
     username : BOOLEAN]

\* A key file is absent or holds a private key of some type.
KeyFiles == [1..2 -> {"absent", "rsa", "ed25519"}]

Envs == [sshpass : BOOLEAN, keys : KeyFiles, authorized : SUBSET (1..2)]

NoEnv == [sshpass |-> FALSE, keys |-> [k \in 1..2 |-> "absent"],
          authorized |-> {}]

\* Where file names play no part, the path view is empty.
NoNames == [video |-> 0]
PathsIdle == video_files = <<>> /\ disk = {} /\ cur = NoNames

\* Where create_remote_dir is one step, the directory view is empty.
CrdIdle == remote_dir = <<>> /\ rdirs = {} /\ actor_dirs = {} /\ stack = <<>>

\* transcode_video called on its own: either mode, the output file already
\* there or not.
InitTranscode ==
    /\ CrdIdle
    /\ PathsIdle
    /\ args \in {a \in Args : ~a.password /\ a.method = "sftp" /\ a.username}
    /\ env = NoEnv
    /\ n_videos = 1
    /\ fs \in SUBSET {<<1, "mkv">>}
    /\ remote = {}
    /\ pc = "caller"
    /\ i = 1
    /\ sub_stream = ""
    /\ stages = <<>>
    /\ fpc = "tv_probe"
    /\ ret = "None"
    /\ exc = "none"
    /\ trace = <<>>
    /\ probe = NoProbe
    /\ is_10bit = FALSE
    /\ local_path = <<1, "mkv">>
    /\ transport = "none"
    /\ key_idx = 0
    /\ cmds = "unbound"
    /\ subtitle_codec = ""

SpecTranscode == InitTranscode /\ [][transcode_video]_vars

\* transfer_file called on its own: every argument combination, every
\* machine and server, the local file present or not.
InitTransfer ==
    /\ CrdIdle
    /\ PathsIdle
    /\ args \in {a \in Args : ~a.use_gpu}
    /\ env \in Envs
    /\ n_videos = 1
    /\ fs \in SUBSET {<<1, "mkv">>}
    /\ remote = {}
    /\ pc = "caller"
    /\ i = 1
    /\ sub_stream = ""
    /\ stages = <<>>
    /\ fpc = "tf_start"
    /\ ret = "None"
    /\ exc = "none"
    /\ trace = <<>>
    /\ probe = NoProbe
    /\ is_10bit = FALSE
    /\ local_path = <<1, "mkv">>
    /\ transport = "none"
    /\ key_idx = 0
    /\ cmds = "unbound"
    /\ subtitle_codec = ""

SpecTransfer == InitTransfer /\ [][transfer_file]_vars

\* extract_subtitles called on its own, for a video with any first subtitle
\* stream or none, the output files already there or not.
InitExtract ==
    /\ CrdIdle
    /\ PathsIdle
    /\ args \in {a \in Args : ~a.use_gpu /\ ~a.password /\ a.method = "sftp"
                              /\ a.username}
    /\ env = NoEnv
    /\ n_videos = 1
    /\ fs \in SUBSET {<<1, "srt">>}
    /\ remote = {}
    /\ pc = "caller"
    /\ i = 1
    /\ sub_stream \in SubCodecs
    /\ stages = <<>>
    /\ fpc = "ex_probe"
    /\ ret = "None"
    /\ exc = "none"
    /\ trace = <<>>
    /\ probe = NoProbe
    /\ is_10bit = FALSE
    /\ local_path = <<1, "srt">>
    /\ transport = "none"
    /\ key_idx = 0
    /\ cmds = "unbound"
    /\ subtitle_codec = ""

SpecExtract == InitExtract /\ [][extract_subtitles]_vars

\* The whole program.  The key files and the server's authorized keys are
\* read only by key authentication over sftp, and sshpass only with a
\* password: elsewhere they are held at one value.
MainEnvs(a) ==
    {e \in Envs :
        /\ (a.password \/ a.method = "scp") =>
              (e.keys = [k \in 1..2 |-> IF k = 1 THEN "rsa" ELSE "ed25519"]
               /\ e.authorized = {})
        /\ ~a.password => ~e.sshpass}

Init ==
    /\ CrdIdle
    /\ PathsIdle
    /\ args \in Args
    /\ env \in MainEnvs(args)
    /\ n_videos \in 0..MaxVideos
    /\ fs \in SUBSET {<<v, "srt">> : v \in 1..n_videos}
    /\ remote = {}
    /\ pc = "loop"
    /\ i = 0
    /\ sub_stream = ""
    /\ stages = <<>>
    /\ fpc = "none"
    /\ ret = "None"
    /\ exc = "none"
    /\ trace = <<>>
    /\ probe = NoProbe
    /\ is_10bit = FALSE
    /\ local_path = <<0, "mkv">>
    /\ transport = "none"
    /\ key_idx = 0
    /\ cmds = "unbound"
    /\ subtitle_codec = ""

Next == main \/ transcode_video \/ transfer_file

Spec == Init /\ [][Next]_vars

----------------------------------------------------------------------------
\* The path view of main (lines 19-30 and 447-477): which files are found and
\* which paths main computes for each.  A path is a directory, the list of
\* its components from the root, and a file name; a file name is the list of
\* its parts, with "." a part of its own: <<"b", ".", "mp4">> is b.mp4.

\* lines 21-24: video_extensions, in the order the loop takes them.
VideoExtensions ==
    <<"mp4", "avi", "mkv", "mov", "wmv", "flv", "webm", "m4v", "mpg", "mpeg",
      "3gp", "ts">>

\* line 28: the pattern *<ext> matches a name ending in <ext>, nothing before
\* it included.  The place of the extension in the list, 0 for no match.
ExtIndex(name) ==
    IF /\ Len(name) >= 2
       /\ name[Len(name) - 1] = "."
       /\ \E k \in 1..Len(VideoExtensions) : VideoExtensions[k] = name[Len(name)]
       THEN CHOOSE k \in 1..Len(VideoExtensions) :
               VideoExtensions[k] = name[Len(name)]
       ELSE 0

\* line 28: ** descends from source_folder.
Under(p, root) ==
    Len(p.dir) >= Len(root) /\ SubSeq(p.dir, 1, Len(root)) = root

\* lines 26-30: the lists find_video_files can return: the matching files,
\* extension by extension, those of one extension in the order the file
\* system lists them.
find_video_files(files, source_folder) ==
    LET found == {p \in files : Under(p, source_folder) /\ ExtIndex(p.name) > 0}
        n == Cardinality(found)
    IN  {s \in [1..n -> found] :
            /\ \A a, b \in 1..n : a # b => s[a] # s[b]
            /\ \A a, b \in 1..n :
                  a < b => ExtIndex(s[a].name) <= ExtIndex(s[b].name)}

\* line 453, rel_path.stem: pathlib cuts the name at its last "." unless that
\* is the first or the last character of the name.
LastDot(name) ==
    LET dots == {k \in 1..Len(name) : name[k] = "."}
    IN  IF dots = {} THEN 0 ELSE CHOOSE k \in dots : \A j \in dots : j <= k

StemCutAtFirstDot(name) ==
    LET dots == {k \in 1..Len(name) : name[k] = "."}
        k == IF dots = {} THEN 0 ELSE CHOOSE d \in dots : \A j \in dots : d <= j
    IN  IF 1 < k /\ k < Len(name) THEN SubSeq(name, 1, k - 1) ELSE name

Stem(name) ==
    LET k == LastDot(name)
    IN  IF 1 < k /\ k < Len(name) THEN SubSeq(name, 1, k - 1) ELSE name

\* rel_path.stem under the pathlib of Python 3.14 and later: the cut at the
\* last "." is made only where a character other than "." precedes it.
Stem314(name) ==
    LET k == LastDot(name)
    IN  IF k > 0 /\ \E j \in 1..(k - 1) : name[j] # "."
           THEN SubSeq(name, 1, k - 1) ELSE name

\* The stems the installed pathlib can give.
Stems(name) == {Stem(name), Stem314(name)}

\* lines 453 and 462, base / stem: pathlib drops a component ".", so the
\* result is base itself, whose last component is then the name; `empty` is
\* the name of a base without components ("" after the root, "." for a
\* relative path).
JoinStem(base, stem, empty) ==
    IF stem # <<".">> THEN [dir |-> base, name |-> stem]
    ELSE IF base = <<>> THEN [dir |-> <<>>, name |-> empty]
    ELSE [dir |-> SubSeq(base, 1, Len(base) - 1),
          name |-> <<base[Len(base)]>>]

\* lines 451-452, rel_path.parent: the directory of the video below the source.
RelParent(video_path, source) ==
    SubSeq(video_path.dir, Len(source) + 1, Len(video_path.dir))

\* lines 461 and 467: f"{output_path}.mkv", f"{output_path}.srt".
WithExt(p, ext) == [dir |-> p.dir, name |-> p.name \o <<".", ext>>]

\* lines 451-469: the paths of the k-th video, for the stem pathlib gives.
Paths(k, video_path, a, stem) ==
    LET parent == RelParent(video_path, a.source)
        output_path == JoinStem(a.temp \o parent, stem, <<>>)
        rel == JoinStem(parent, stem, <<".">>)
        remote_stem == [dir |-> a.dest_folder \o rel.dir, name |-> rel.name]
    IN  [video |-> k,
         video_path |-> video_path,
         output_path |-> output_path,
         mkv_path |-> WithExt(output_path, "mkv"),
         srt_path |-> WithExt(output_path, "srt"),
         remote_stem |-> remote_stem,
         remote_mkv_path |-> WithExt(remote_stem, "mkv"),
         remote_srt_path |-> WithExt(remote_stem, "srt")]

pipelineVars ==
    <<env, fs, sub_stream, stages, fpc, ret, exc, tvLocals, local_path,
      tfLocals, subtitle_codec, crdVars>>

\* lines 447-454: take the next video and compute its paths, or finish.
paths_loop ==
    /\ pc = "loop"
    /\ IF i < Len(video_files)
          THEN /\ i' = i + 1
               /\ \E stem \in Stems(video_files[i + 1].name) :
                     cur' = Paths(i + 1, video_files[i + 1], args, stem)
               /\ pc' = "transcode"
          ELSE /\ pc' = "done"
               /\ UNCHANGED <<i, cur>>
    /\ UNCHANGED <<args, n_videos, video_files, disk, remote, trace,
                   pipelineVars>>

\* line 458: transcode_video writes f"{output_path}.mkv" or raises; it
\* removes nothing when it fails.  ffmpeg needs its input to exist and
\* refuses an output that is its input; over another existing file it writes
\* once the operator confirms.  A run that exits non-zero may leave its
\* output file behind; a run that cannot be started writes nothing.
paths_transcode ==
    /\ pc = "transcode"
    /\ \E out \in RunOutcomes :
          /\ out = "ok" =>
                (cur.video_path \in disk /\ cur.mkv_path # cur.video_path)
          /\ trace' = Append(trace, Ev("ffmpeg", cur.mkv_path, i, out))
          /\ pc' = IF out = "ok" THEN "transfer" ELSE "crashed"
          /\ \E ndisk \in
                (CASE out = "ok"      -> {disk \cup {cur.mkv_path}}
                   [] out = "exit"    ->
                         IF cur.video_path \in disk
                            THEN {disk, disk \cup {cur.mkv_path}}
                            ELSE {disk}
                   [] out = "oserror" -> {disk}) : disk' = ndisk
    /\ UNCHANGED <<args, n_videos, video_files, cur, i, remote, pipelineVars>>

\* What one call of transfer_file comes to.
TransferResults == {"True", "False", "raised"}

\* lines 460-471: transfer the MKV, then the SRT if that file exists.
paths_transfer ==
    /\ pc = "transfer"
    /\ \E m \in TransferResults :
          IF m # "raised" /\ cur.srt_path \in disk
             THEN \E s \in TransferResults :
                     /\ trace' = trace \o <<Ev("transfer", cur.remote_mkv_path, i, m),
                                            Ev("transfer", cur.remote_srt_path, i, s)>>
                     /\ remote' = remote
                           \cup (IF m = "True" THEN {cur.remote_mkv_path} ELSE {})
                           \cup (IF s = "True" THEN {cur.remote_srt_path} ELSE {})
                     /\ pc' = IF s = "raised" THEN "crashed" ELSE "cleanup"
             ELSE /\ trace' = Append(trace, Ev("transfer", cur.remote_mkv_path, i, m))
                  /\ remote' = remote
                        \cup (IF m = "True" THEN {cur.remote_mkv_path} ELSE {})
                  /\ pc' = IF m = "raised" THEN "crashed" ELSE "cleanup"
    /\ UNCHANGED <<args, n_videos, video_files, disk, cur, i, pipelineVars>>

\* lines 473-477: remove the temp MKV and the temp SRT where they exist.
paths_cleanup ==
    /\ pc = "cleanup"
    /\ disk' = disk \ {cur.mkv_path, cur.srt_path}
    /\ trace' = trace
          \o (IF cur.mkv_path \in disk
                 THEN <<Ev("os.remove", cur.mkv_path, i, "ok")>> ELSE <<>>)
          \o (IF cur.srt_path \in disk
                 THEN <<Ev("os.remove", cur.srt_path, i, "ok")>> ELSE <<>>)
    /\ pc' = "loop"
    /\ UNCHANGED <<args, n_videos, video_files, cur, i, remote, pipelineVars>>

main_paths == paths_loop \/ paths_transcode \/ paths_transfer \/ paths_cleanup

\* The file names and directories the path view is checked over: a plain
\* video, one with the same stem and another extension, one with two dots,
\* one that is nothing but an extension, one that is a dot and an extension,
\* and a subtitle file; in the source folder, in a folder below it, and
\* outside it.
FileNames ==
    {<<"b", ".", "mp4">>, <<"b", ".", "mkv">>, <<"b", ".", "x", ".", "mp4">>,
     <<".", "mp4">>, <<".", ".", "mp4">>, <<"b", ".", "srt">>}

SourceFolder == <<"v">>

FileUniverse ==
    {[dir |-> d, name |-> f] :
        d \in {SourceFolder, SourceFolder \o <<"a">>, <<"t">>}, f \in FileNames}

\* --temp is apart from the source, the source itself, below it, or above it.
PathArgs ==
    [use_gpu : {FALSE}, password : {FALSE}, method : {"sftp"},
     username : {TRUE}, source : {SourceFolder},
     temp : {<<"t">>, SourceFolder, SourceFolder \o <<"a">>, <<>>},
     dest_folder : {<<"d">>}]

InitPaths ==
    /\ CrdIdle
    /\ args \in PathArgs
    /\ env = NoEnv
    /\ disk \in {S \in SUBSET FileUniverse : Cardinality(S) <= MaxVideos}
    /\ video_files \in find_video_files(disk, args.source)
    /\ n_videos = Len(video_files)
    /\ cur = NoNames
    /\ fs = {}
    /\ remote = {}
    /\ pc = "loop"
    /\ i = 0
    /\ sub_stream = ""
    /\ stages = <<>>
    /\ fpc = "none"
    /\ ret = "None"
    /\ exc = "none"
    /\ trace = <<>>
    /\ probe = NoProbe
    /\ is_10bit = FALSE
    /\ local_path = <<0, "mkv">>
    /\ transport = "none"
    /\ key_idx = 0
    /\ cmds = "unbound"
    /\ subtitle_codec = ""

SpecPaths == InitPaths /\ [][main_paths]_vars

----------------------------------------------------------------------------
\* create_remote_dir (lines 220-234) step by step, as transfer_file calls it
\* at line 285 and goes on to the upload.  A remote path is a string, the
\* list of its characters.  The server resolves a path to a directory: the
\* root or the login directory, and the names leading down from it.  It
\* answers stat by whether the directory exists and lets mkdir succeed where
\* the parent exists and the directory does not; both report failure as
\* IOError.  A lost connection ends either call with an exception that is
\* not an IOError.

MaxPathLen == 4

PathChars == {"/", "a", "b"}

RemotePaths == UNION {[1..n -> PathChars] : n \in 0..MaxPathLen}

\* os.path.dirname (line 228): the part up to the last "/", with trailing
\* slashes stripped unless it is slashes only.
AllSlashes(p) == \A k \in 1..Len(p) : p[k] = "/"

RStripSlashes(p) ==
    LET keep == {k \in 1..Len(p) : p[k] # "/"}
    IN  IF keep = {} THEN <<>>
        ELSE SubSeq(p, 1, CHOOSE k \in keep : \A j \in keep : j <= k)

DirnameEmpty(p) == <<>>

Dirname(p) ==
    LET slashes == {k \in 1..Len(p) : p[k] = "/"}
        cut == IF slashes = {} THEN 0
               ELSE CHOOSE k \in slashes : \A j \in slashes : j <= k
        head == SubSeq(p, 1, cut)
    IN  IF head # <<>> /\ ~AllSlashes(head) THEN RStripSlashes(head) ELSE head

\* The root and the login directory always exist.
Exists(d) == d.names = <<>> \/ d \in rdirs

\* sftp.stat (line 226).
StatOutcomes(p) ==
    (IF Exists(Resolve(p)) THEN {"ok"} ELSE {"ioerror"}) \cup {"dropped"}

\* sftp.mkdir (line 231).
MkdirOutcomes(p) ==
    (IF Exists(Parent(Resolve(p))) /\ ~Exists(Resolve(p))
        THEN {"ok"} ELSE {"ioerror"}) \cup {"dropped"}

IOErrorLeaves(out) == out # "ok"

\* lines 225-234: both except clauses name IOError; any other exception
\* leaves create_remote_dir, and transfer_file catches it at line 290.
Leaves(out) == out = "dropped"

Frame(p, at) == [path |-> p, at |-> at]

Top == stack[Len(stack)]

\* The top frame returns: to the frame below, or to line 286 of
\* transfer_file.
Return ==
    /\ stack' = SubSeq(stack, 1, Len(stack) - 1)
    /\ fpc' = IF Len(stack) = 1 THEN "tf_put" ELSE "crd"

\* The exception passes every frame and reaches the except clause of
\* transfer_file.
Propagate ==
    /\ stack' = <<>>
    /\ fpc' = "tf_fallback"

crdFrame ==
    <<args, env, n_videos, pathVars, fs, remote, mainVars, ret, exc,
      tvLocals, local_path, tfLocals, subtitle_codec, remote_dir>>

\* lines 222-223: nothing to do for "/" and "".
crd_base ==
    /\ fpc = "crd"
    /\ Top.at = "start"
    /\ Top.path \in {<<"/">>, <<>>}
    /\ Return
    /\ UNCHANGED <<crdFrame, rdirs, actor_dirs, trace>>

\* lines 225-229: the existence check; on IOError the call recurses into
\* the parent, with its own mkdir still to come.
crd_stat ==
    /\ fpc = "crd"
    /\ Top.at = "start"
    /\ Top.path \notin {<<"/">>, <<>>}
    /\ \E out \in StatOutcomes(Top.path) :
          /\ trace' = Append(trace, Ev("sftp", "stat", Top.path, out))
          /\ IF Leaves(out) THEN Propagate
             ELSE IF out = "ok" THEN Return
             ELSE /\ stack' = SubSeq(stack, 1, Len(stack) - 1)
                       \o <<Frame(Top.path, "mkdir"),
                            Frame(Dirname(Top.path), "start")>>
                  /\ fpc' = "crd"
    /\ UNCHANGED <<crdFrame, rdirs, actor_dirs>>

\* lines 230-234: mkdir once the recursive call has returned; an IOError is
\* passed over.
crd_mkdir ==
    /\ fpc = "crd"
    /\ Top.at = "mkdir"
    /\ \E out \in MkdirOutcomes(Top.path) :
          /\ trace' = Append(trace, Ev("sftp", "mkdir", Top.path, out))
          /\ rdirs' = IF out = "ok" THEN rdirs \cup {Resolve(Top.path)}
                      ELSE rdirs
          /\ IF Leaves(out) THEN Propagate ELSE Return
    /\ UNCHANGED <<crdFrame, actor_dirs>>

create_remote_dir == crd_base \/ crd_stat \/ crd_mkdir

\* Another client of the server creates a missing directory of the chain
\* whose parent exists, while create_remote_dir runs.
actor_mkdir ==
    /\ fpc = "crd"
    /\ \E d \in Chain(Resolve(remote_dir)) :
          /\ ~Exists(d) /\ Exists(Parent(d))
          /\ rdirs' = rdirs \cup {d}
          /\ actor_dirs' = actor_dirs \cup {d}
    /\ UNCHANGED <<crdFrame, stack, fpc, trace>>

\* lines 284-285: transfer_file, connected and authenticated, calls
\* create_remote_dir on any path; of the chain of that path the directories
\* down to some level exist.
InitMkdir ==
    /\ PathsIdle
    /\ args \in {a \in Args : ~a.use_gpu /\ ~a.password /\ a.method = "sftp"
                              /\ a.username}
    /\ env = NoEnv
    /\ n_videos = 1
    /\ fs = {<<1, "mkv">>}
    /\ remote = {}
    /\ pc = "caller"
    /\ i = 1
    /\ sub_stream = ""
    /\ stages = <<>>
    /\ fpc = "crd"
    /\ ret = "None"
    /\ exc = "none"
    /\ trace = <<>>
    /\ probe = NoProbe
    /\ is_10bit = FALSE
    /\ local_path = <<1, "mkv">>
    /\ transport = "authed"
    /\ key_idx = 0
    /\ cmds = "unbound"
    /\ subtitle_codec = ""
    /\ remote_dir \in RemotePaths
    /\ \E k \in 0..Len(Names(remote_dir)) :
          rdirs = {d \in Chain(Resolve(remote_dir)) : Len(d.names) <= k}
    /\ actor_dirs = {}
    /\ stack = <<Frame(remote_dir, "start")>>

NextMkdir ==
    \/ create_remote_dir \/ actor_mkdir
    \/ tf_put \/ tf_fallback \/ tf_fb_mkdir \/ tf_fb_scp

\* create_remote_dir is a sequential call: it keeps running.
SpecMkdir == InitMkdir /\ [][NextMkdir]_vars /\ WF_vars(create_remote_dir)



----------------------------------------------------------------------------
\* Properties of transcode_video (under SpecTranscode).

\* The encoder runs of the call, in order.
IsEncode(e) == e.op = "ffmpeg"
Encodes == SelectSeq(trace, IsEncode)
Failed(e) == e.res # "ok"

\* C5: with hardware preferred, transcode_video raises only after the
\* hardware attempt and then the software attempt were both made and both
\* failed, whatever the kind of failure of the hardware attempt.
C5_HardwareFailureFallsBack ==
    (args.use_gpu /\ fpc = "raised") =>
        /\ Len(Encodes) = 2
        /\ Encodes[1].arg = "h264_nvenc" /\ Failed(Encodes[1])
        /\ Encodes[2].arg = "libx264" /\ Failed(Encodes[2])

\* C6: the hardware encoder runs only if use_gpu; in software-only mode there
\* is at most one encoder run, it is libx264, and it is exactly one once the
\* call has ended; with use_gpu the first run is h264_nvenc, a libx264 run
\* only ever follows a failed h264_nvenc run, and nothing follows a
\* successful h264_nvenc run.
C6_HardwareOnlyWhenRequested ==
    LET enc == Encodes IN
    /\ (\E k \in 1..Len(enc) : enc[k].arg = "h264_nvenc") => args.use_gpu
    /\ ~args.use_gpu =>
          /\ Len(enc) <= 1
          /\ \A k \in 1..Len(enc) : enc[k].arg = "libx264"
          /\ Ended => Len(enc) = 1
    /\ args.use_gpu =>
          /\ Len(enc) <= 2
          /\ Len(enc) >= 1 => enc[1].arg = "h264_nvenc"
          /\ Len(enc) = 2 => enc[2].arg = "libx264" /\ Failed(enc[1])
          /\ Ended => Len(enc) >= 1

\* C6 witness: hardware was preferred, failed, and the software encode that
\* followed succeeded.
C6_Witness ==
    /\ args.use_gpu
    /\ fpc = "returned"
    /\ Len(Encodes) = 2
    /\ Encodes[1].arg = "h264_nvenc" /\ Encodes[1].res = "exit"
    /\ Encodes[2].arg = "libx264" /\ Encodes[2].res = "ok"

\* C7: an encoder run carries the forced -pix_fmt yuv420p exactly when
\* hardware is preferred, the source is 10-bit and the run is the hardware
\* attempt.
C7_DownconvertOnlyTenBitHardware ==
    \A k \in 1..Len(Encodes) :
        (Encodes[k].opt = "-pix_fmt yuv420p") <=>
            (args.use_gpu /\ probe.depth = 10 /\ Encodes[k].arg = "h264_nvenc")

----------------------------------------------------------------------------
\* Properties of extract_subtitles (under SpecExtract).

\* C8: for an ASS/SSA stream, once extract_subtitles has returned the
\* temporary .ass file does not exist.
C8_NoResidualAssFile ==
    (fpc = "returned" /\ subtitle_codec \in StyleCodecs) =>
        Sibling("ass") \notin fs

\* C9: extract_subtitles never raises, and after a failed step it returns
\* False.
C9_ExtractionNeverRaises ==
    /\ fpc # "raised"
    /\ (fpc = "returned" /\ \E k \in 1..Len(trace) : Failed(trace[k])
                                                     /\ trace[k].op = "ffmpeg")
          => ret = "False"

----------------------------------------------------------------------------
\* Properties of transfer_file (under SpecTransfer).

Events(op, arg) ==
    SelectSeq(trace, LAMBDA e : e.op = op /\ e.arg = arg)

PrimaryStarted == Len(Events("paramiko", "Transport")) > 0
PutDone == \E k \in 1..Len(trace) :
               trace[k].op = "paramiko" /\ trace[k].arg = "put"
               /\ trace[k].res = "ok"
SecondaryAttempts == Len(Events("fallback", "mkdir"))

\* C2: in sftp mode, a primary attempt that failed at any stage (opening the
\* connection included) is followed by exactly one secondary attempt before
\* the call ends.
C2_PrimaryFailureOneSecondary ==
    (args.method = "sftp" /\ Ended /\ PrimaryStarted /\ ~PutDone) =>
        SecondaryAttempts = 1

\* C3: for every protocol, password, sshpass and step outcome, transfer_file
\* ends by returning True or False and no exception leaves it (stated for
\* calls with a username, where os.getlogin is not run).
C3_TransferNeverRaises ==
    args.username =>
        /\ fpc # "raised"
        /\ fpc = "returned" => ret \in {"True", "False"}

\* The attempts with the key files, in order.
KeyTries == SelectSeq(trace, LAMBDA e : e.op = "key")
KeyMode == args.method = "sftp" /\ ~args.password
BothKeysPresent == \A k \in 1..2 : env.keys[k] # "absent"
AuthOver == fpc \notin {"tf_start", "tf_transport", "tf_key", "raised"}

\* C10: in key mode with both key files present, id_rsa is tried before
\* id_ed25519, nothing is tried after a key was accepted, and when id_rsa
\* failed and the server accepts the key of id_ed25519, that key is tried and
\* accepted and the transfer goes on over sftp with an authenticated
\* transport.
C10_SecondKeyAuthenticates ==
    (KeyMode /\ BothKeysPresent) =>
        /\ \A k \in 1..Len(KeyTries) : KeyTries[k].arg = KeyNames[k]
        /\ \A k \in 1..Len(KeyTries) :
              KeyTries[k].res = "ok" => k = Len(KeyTries)
        /\ (AuthOver /\ 1 \notin env.authorized /\ 2 \in env.authorized) =>
              /\ Len(KeyTries) = 2
              /\ KeyTries[2].res = "ok"
              /\ fpc \in {"tf_check_active", "tf_sftp"} => transport = "authed"

\* C11: with a password, no key file is read or offered at any point of the
\* call, also after the password was refused: the trace holds no key attempt
\* and key_paths is never indexed.
C11_PasswordExcludesKeys ==
    args.password => (Len(KeyTries) = 0 /\ key_idx = 0)

\* C11 witness: both key files exist, the password was refused, and the call
\* went on to its end through the fallback.
C11_Witness ==
    /\ args.password /\ BothKeysPresent /\ Ended
    /\ \E k \in 1..Len(trace) :
          trace[k].op = "paramiko" /\ trace[k].arg = "connect"
          /\ trace[k].res = "fail"
    /\ SecondaryAttempts = 1

\* Both commands of the secondary protocol exited successfully, in fallback
\* or in scp mode.
SecondaryDone ==
    \E m \in {"fallback", "scp"} :
        /\ Len(Events(m, "mkdir")) > 0
        /\ Events(m, "mkdir")[Len(Events(m, "mkdir"))].res = "ok"
        /\ Len(Events(m, "scp")) > 0
        /\ Events(m, "scp")[Len(Events(m, "scp"))].res = "ok"

\* C19: transfer_file returns True only if the upload over the primary
\* protocol completed or the mkdir and the copy of the secondary protocol
\* both exited successfully; the file is then at the remote side.
C19_TrueOnlyIfUploaded ==
    (fpc = "returned" /\ ret = "True") =>
        /\ PutDone \/ SecondaryDone
        /\ local_path \in remote

\* C19 witness: the primary protocol failed before its upload, the fallback
\* ran both commands successfully, and the call returned True.
C19_Witness ==
    /\ fpc = "returned" /\ ret = "True"
    /\ PrimaryStarted /\ ~PutDone
    /\ SecondaryDone

\* The form the credential policy gives the commands of scp mode: through
\* sshpass with a password where sshpass is installed, plain otherwise.
PolicyForm == IF args.password /\ env.sshpass THEN "sshpass" ELSE "plain"

\* C16: in scp mode the mkdir command is run in the form the credential
\* policy gives, the copy command in the same form and only after the mkdir
\* succeeded, and the call returns True exactly when both succeeded.
C16_ScpCredentialPolicy ==
    (args.method = "scp" /\ args.username /\ Ended) =>
        /\ Len(Events("scp", "mkdir")) = 1
        /\ Events("scp", "mkdir")[1].opt = PolicyForm
        /\ \A k \in 1..Len(Events("scp", "scp")) :
              /\ Events("scp", "scp")[k].opt = PolicyForm
              /\ Events("scp", "mkdir")[1].res = "ok"
        /\ (fpc = "returned" /\ ret = "True") <=>
              (/\ Events("scp", "mkdir")[1].res = "ok"
               /\ Len(Events("scp", "scp")) = 1
               /\ Events("scp", "scp")[1].res = "ok")

----------------------------------------------------------------------------
\* Properties of main (under Spec).

TextCodecs == SubCodecs \ (StyleCodecs \cup ImageCodecs \cup {""})

\* main is done with video v: a later video was taken, or main cleaned up
\* after v, or main ended.
DoneWith(v) == v < i \/ (v = i /\ pc \in {"loop", "done", "crashed"})

\* transcode_video returned for video v.
Transcoded(v) == v < i \/ (v = i /\ Len(stages) >= 2)

\* C1: once main is done with a video whose transcode succeeded, neither its
\* temp MKV nor its temp SRT exists.
C1_TempFilesRemoved ==
    \A v \in 1..n_videos :
        (DoneWith(v) /\ Transcoded(v)) =>
            (<<v, "mkv">> \notin fs /\ <<v, "srt">> \notin fs)

\* C4: when main has cleaned up after a video with a text subtitle stream,
\* the stages it ran were transcode, subtitle extraction, transfer and
\* cleanup, in that order.
C4_ExtractBetweenTranscodeAndTransfer ==
    (pc = "loop" /\ i > 0 /\ sub_stream \in TextCodecs) =>
        stages = <<"Transcode", "Extract", "Transfer", "Cleanup">>

----------------------------------------------------------------------------
\* Further properties of extract_subtitles (under SpecExtract).

\* The call printed one of its extraction warnings (lines 83, 115, 129): an
\* ffmpeg step exited non-zero and the call returned False.
FailureWarning ==
    /\ fpc = "returned" /\ ret = "False"
    /\ Len(trace) > 0
    /\ trace[Len(trace)].op = "ffmpeg" /\ trace[Len(trace)].res = "exit"

\* C14: for a video with no subtitle stream, extraction is skipped: no
\* extraction tool is run and no failure warning is printed.
C14_NoStreamNoExtraction ==
    sub_stream = "" =>
        /\ \A k \in 1..Len(trace) : trace[k].op # "ffmpeg"
        /\ ~FailureWarning

\* C13: when a transfer of the current video returns False, main goes on to
\* the SRT transfer or to cleanup and keeps the failure: the value returned
\* stays with main or the stages of the video record it.
C13_TransferFailureRecorded ==
    [][(pc \in {"xfer_mkv", "xfer_srt"} /\ fpc = "returned" /\ ret = "False") =>
          /\ pc' \in {"xfer_srt", "cleanup"}
          /\ \/ ret' = "False"
             \/ \E k \in 1..Len(stages') : stages'[k] = "TransferFailed"]_vars

\* C15: when transcode_video raises for a video, main ends there: no transfer
\* and no cleanup stage is run for that video, no later video is taken, and
\* nothing happens after main has ended that way.
C15_TranscodeFailureStopsBatch ==
    [][/\ (pc = "transcode" /\ fpc = "raised") =>
             (/\ pc' = "crashed"
              /\ i' = i /\ stages' = stages
              /\ fs' = fs /\ remote' = remote)
       /\ pc # "crashed"]_vars

\* C15 witness: transcode_video raised for the first of two videos and main
\* has ended, with the transcode stage the only one run.
C15_Witness ==
    /\ pc = "crashed" /\ i = 1 /\ n_videos = 2
    /\ stages = <<"Transcode">>
    /\ exc # "none"

----------------------------------------------------------------------------
\* Properties of the paths main computes (under SpecPaths).

\* The name with the extension find_video_files matched taken off.
WithoutExtension(name) == SubSeq(name, 1, Len(name) - 2)

\* The directories d with p.dir = root \o d.
Below(p, root) ==
    {d \in {SubSeq(p.dir, k, Len(p.dir)) : k \in 1..(Len(p.dir) + 1)} :
        p.dir = root \o d}

\* The paths of the current video mirror its place below the source, with
\* the file name `name` in place of the video's.
Mirrors(name) ==
    \E d \in Below(cur.video_path, args.source) :
        /\ cur.output_path = [dir |-> args.temp \o d, name |-> name]
        /\ cur.remote_stem = [dir |-> args.dest_folder \o d, name |-> name]
        /\ cur.mkv_path = [dir |-> args.temp \o d, name |-> name \o <<".", "mkv">>]
        /\ cur.srt_path = [dir |-> args.temp \o d, name |-> name \o <<".", "srt">>]
        /\ cur.remote_mkv_path =
              [dir |-> args.dest_folder \o d, name |-> name \o <<".", "mkv">>]
        /\ cur.remote_srt_path =
              [dir |-> args.dest_folder \o d, name |-> name \o <<".", "srt">>]

\* A file name that is nothing but an extension, as .mp4 is.
BareExtension(name) == Len(name) = 2

\* C12 as stated: for every discovered asset the temp and the remote output
\* stems are its path relative to the source with the extension it was
\* discovered by removed.
C12_StemsMirrorEveryAsset ==
    cur # NoNames => Mirrors(WithoutExtension(cur.video_path.name))

\* The name has a character other than "." before its extension.
HasBase(name) == \E k \in 1..(Len(name) - 2) : name[k] # "."

\* C12: for every discovered asset whose name has a character other than "."
\* before the extension, the temp and the remote output stems are its path
\* relative to the source with that extension removed, and the MKV and SRT
\* names follow; an asset named by an extension alone keeps its whole name as
\* the stem.  Names of several dots and an extension are outside the rule.
C12_StemsMirrorRelativePath ==
    cur # NoNames =>
        /\ HasBase(cur.video_path.name) =>
              Mirrors(WithoutExtension(cur.video_path.name))
        /\ BareExtension(cur.video_path.name) => Mirrors(cur.video_path.name)

\* C12 witness: a video with two dots in its name, in a folder below the
\* source, has been transcoded and transferred.
C12_Witness ==
    /\ pc = "cleanup"
    /\ cur.video_path = [dir |-> SourceFolder \o <<"a">>,
                         name |-> <<"b", ".", "x", ".", "mp4">>]
    /\ cur.remote_mkv_path \in remote

\* The discovered source files.
SourceAssets == {video_files[k] : k \in 1..Len(video_files)}

\* C20: whatever the source and temp folders, no encode writes to the path of
\* a discovered source file and cleanup removes none.
C20_SourceAssetsUntouched ==
    \A k \in 1..Len(trace) :
        (trace[k].op \in {"ffmpeg", "os.remove"} /\ trace[k].res = "ok")
            => trace[k].arg \notin SourceAssets

\* Two videos of the batch wrote their temp output to one path.
TempPathShared ==
    \E j, k \in 1..Len(trace) :
        /\ trace[j].op = "ffmpeg" /\ trace[k].op = "ffmpeg"
        /\ trace[j].arg = trace[k].arg /\ trace[j].opt # trace[k].opt

\* The upload of one video replaced the remote file of another.
RemoteOverwritten ==
    \E j, k \in 1..Len(trace) :
        /\ j < k
        /\ trace[j].op = "transfer" /\ trace[j].res = "True"
        /\ trace[k].op = "transfer" /\ trace[k].res = "True"
        /\ trace[j].arg = trace[k].arg /\ trace[j].opt # trace[k].opt

\* C21: no two discovered videos are given the same temp output path or the
\* same remote path, so within one run no upload replaces the remote file of
\* another video.
C21_OutputsNeverShared == ~TempPathShared /\ ~RemoteOverwritten

----------------------------------------------------------------------------
\* Properties of create_remote_dir (under SpecMkdir).

IsStat(e) == e.op = "sftp" /\ e.arg = "stat"
IsMkdir(e) == e.op = "sftp" /\ e.arg = "mkdir"

\* The directory an sftp call of the trace was about.
DirOf(e) == Resolve(e.opt)

\* Every directory of the chain of remote_dir exists.
ChainExists == \A d \in Chain(Resolve(remote_dir)) : Exists(d)

\* create_remote_dir has returned to transfer_file.
CrdReturned == fpc = "tf_put"

\* mkdir is issued only for a path whose stat failed before.
MkdirOnlyAfterFailedCheck ==
    \A k \in 1..Len(trace) :
        IsMkdir(trace[k]) =>
            \E j \in 1..(k - 1) :
                /\ IsStat(trace[j]) /\ trace[j].opt = trace[k].opt
                /\ trace[j].res = "ioerror"

\* The checks walk upward and end at the first directory that exists: each
\* check is at most as deep as the one before, and none follows a check that
\* succeeded or a mkdir.
StopsAtFirstExisting ==
    \A j, k \in 1..Len(trace) :
        (j < k /\ IsStat(trace[k])) =>
            /\ ~IsMkdir(trace[j])
            /\ IsStat(trace[j]) =>
                  /\ trace[j].res = "ioerror"
                  /\ Len(DirOf(trace[k]).names) <= Len(DirOf(trace[j]).names)

\* The mkdir calls come root to leaf, and the parent path of each was found
\* to exist or was the subject of a mkdir before, unless it is "/" or "".
RootToLeaf ==
    \A k \in 1..Len(trace) :
        IsMkdir(trace[k]) =>
            /\ \A j \in 1..(k - 1) :
                  IsMkdir(trace[j]) =>
                      /\ Len(trace[j].opt) < Len(trace[k].opt)
                      /\ Len(DirOf(trace[j]).names) <= Len(DirOf(trace[k]).names)
            /\ \/ Dirname(trace[k].opt) \in {<<"/">>, <<>>}
               \/ \E j \in 1..(k - 1) :
                     /\ trace[j].opt = Dirname(trace[k].opt)
                     /\ IsMkdir(trace[j]) \/ trace[j].res = "ok"

C17_Safety ==
    /\ CrdReturned => ChainExists
    /\ MkdirOnlyAfterFailedCheck
    /\ StopsAtFirstExisting
    /\ RootToLeaf

\* C17: create_remote_dir comes to an end for every remote path; when it
\* returns, every directory of the chain exists; it issues mkdir only for
\* paths whose check failed, checks no further up once a directory was found
\* to exist, and issues the mkdir calls root to leaf.
C17_TerminatesWithChain ==
    /\ []C17_Safety
    /\ <>(fpc # "crd")

\* C17 witness: with no other client at work, create_remote_dir returned
\* after creating a directory and the one below it.
C17_Witness ==
    /\ CrdReturned /\ actor_dirs = {}
    /\ \E j, k \in 1..Len(trace) :
          /\ j < k
          /\ IsMkdir(trace[j]) /\ trace[j].res = "ok"
          /\ IsMkdir(trace[k]) /\ trace[k].res = "ok"
          /\ DirOf(trace[j]) = Parent(DirOf(trace[k]))


\* A mkdir of create_remote_dir failed on a directory another client had
\* created after the check.
RaceLost ==
    \E k \in 1..Len(trace) :
        /\ IsMkdir(trace[k]) /\ trace[k].res = "ioerror"
        /\ DirOf(trace[k]) \in actor_dirs

\* The connection was lost during an sftp call, or the upload failed.
PrimaryBroke ==
    \E k \in 1..Len(trace) :
        \/ trace[k].res = "dropped"
        \/ (trace[k].op = "paramiko" /\ trace[k].arg = "put"
            /\ trace[k].res = "fail")

\* C18: a mkdir that fails because the directory is there already, created by
\* another client between the check and the mkdir, is passed over:
\* create_remote_dir goes on or returns, the chain exists when it returns,
\* and transfer_file turns to the secondary protocol only after a lost
\* connection or a failed upload.
C18_RaceTolerated ==
    /\ (Len(trace) > 0 /\ IsMkdir(trace[Len(trace)])
        /\ trace[Len(trace)].res = "ioerror") => fpc \in {"crd", "tf_put"}
    /\ CrdReturned => ChainExists
    /\ (fpc \in {"tf_fallback", "tf_fb_mkdir", "tf_fb_scp"}
        \/ SecondaryAttempts > 0 \/ fpc = "raised") => PrimaryBroke

\* C18 witness: another client created a directory of the chain between its
\* check and its mkdir, create_remote_dir created the directory below it, and
\* the file was uploaded over sftp with no secondary attempt.
C18_Witness ==
    /\ fpc = "returned" /\ ret = "True"
    /\ PutDone /\ SecondaryAttempts = 0
    /\ \E j, k \in 1..Len(trace) :
          /\ j < k
          /\ IsMkdir(trace[j]) /\ trace[j].res = "ioerror"
          /\ DirOf(trace[j]) \in actor_dirs
          /\ IsMkdir(trace[k]) /\ trace[k].res = "ok"
=============================================================================
